---- MODULE Spec2Model ----
(***************************************************************************)
(* A model of app.py: the BOM label generator.                             *)
(*                                                                         *)
(* Strings are sequences of one-character strings, so that upper-casing,   *)
(* trimming, concatenation and difflib's similarity are computed and not   *)
(* assumed.  A spreadsheet cell is a record [t |-> "s", v |-> string],     *)
(* [t |-> "i", v |-> natural number] or [t |-> "nan"] (an empty cell); a   *)
(* cell of the frame pandas builds may also be [t |-> "f", v |-> n], the   *)
(* float n.0.                                                              *)
(***************************************************************************)
EXTENDS Integers, Sequences, FiniteSets, TLC

VARIABLES excel, files, resp, procs, served

vars == <<excel, files, resp, procs, served>>

-----------------------------------------------------------------------------
(* Characters and the string methods the program calls.                    *)
(* A character is a one-character string.  Characters that cannot be       *)
(* written in a string of this module are written by name: "<U+00A0>" is   *)
(* the character with code point A0 (hexadecimal), "<rupee>" is U+20B9.    *)

Digits == <<"0","1","2","3","4","5","6","7","8","9">>

\* the characters with code points 0 to 255, in code-point order
Latin1 ==
  <<
    "<U+0000>","<U+0001>","<U+0002>","<U+0003>","<U+0004>","<U+0005>","<U+0006>","<U+0007>","<U+0008>","\t","\n","<U+000B>","\f","\r","<U+000E>","<U+000F>",
    "<U+0010>","<U+0011>","<U+0012>","<U+0013>","<U+0014>","<U+0015>","<U+0016>","<U+0017>","<U+0018>","<U+0019>","<U+001A>","<U+001B>","<U+001C>","<U+001D>","<U+001E>","<U+001F>",
    " ","!","\"","#","$","%","&","'","(",")","*","+",",","-",".","/",
    "0","1","2","3","4","5","6","7","8","9",":",";","<","=",">","?",
    "@","A","B","C","D","E","F","G","H","I","J","K","L","M","N","O",
    "P","Q","R","S","T","U","V","W","X","Y","Z","[","\\","]","^","_",
    "<U+0060>","a","b","c","d","e","f","g","h","i","j","k","l","m","n","o",
    "p","q","r","s","t","u","v","w","x","y","z","{","|","}","~","<U+007F>",
    "<U+0080>","<U+0081>","<U+0082>","<U+0083>","<U+0084>","<U+0085>","<U+0086>","<U+0087>","<U+0088>","<U+0089>","<U+008A>","<U+008B>","<U+008C>","<U+008D>","<U+008E>","<U+008F>",
    "<U+0090>","<U+0091>","<U+0092>","<U+0093>","<U+0094>","<U+0095>","<U+0096>","<U+0097>","<U+0098>","<U+0099>","<U+009A>","<U+009B>","<U+009C>","<U+009D>","<U+009E>","<U+009F>",
    "<U+00A0>","¡","¢","£","¤","¥","¦","§","¨","©","ª","«","¬","<U+00AD>","®","¯",
    "°","±","²","³","´","µ","¶","·","¸","¹","º","»","¼","½","¾","¿",
    "À","Á","Â","Ã","Ä","Å","Æ","Ç","È","É","Ê","Ë","Ì","Í","Î","Ï",
    "Ð","Ñ","Ò","Ó","Ô","Õ","Ö","×","Ø","Ù","Ú","Û","Ü","Ý","Þ","ß",
    "à","á","â","ã","ä","å","æ","ç","è","é","ê","ë","ì","í","î","ï",
    "ð","ñ","ò","ó","ô","õ","ö","÷","ø","ù","ú","û","ü","ý","þ","ÿ" >>

\* the other characters of the model, each with its code point
Wide ==
  <<
     <<"<U+0178>", 376>>, <<"<U+039C>", 924>>, <<"<U+03BC>", 956>>, <<"<U+1680>", 5760>>,
     <<"<U+2000>", 8192>>, <<"<U+2001>", 8193>>, <<"<U+2002>", 8194>>, <<"<U+2003>", 8195>>,
     <<"<U+2004>", 8196>>, <<"<U+2005>", 8197>>, <<"<U+2006>", 8198>>, <<"<U+2007>", 8199>>,
     <<"<U+2008>", 8200>>, <<"<U+2009>", 8201>>, <<"<U+200A>", 8202>>, <<"<U+2028>", 8232>>,
     <<"<U+2029>", 8233>>, <<"<U+202F>", 8239>>, <<"<U+205F>", 8287>>, <<"<rupee>", 8377>>,
     <<"<U+274C>", 10060>>, <<"<U+3000>", 12288>> >>

Chars ==
  {Latin1[i] : i \in 1..Len(Latin1)} \cup {Wide[i][1] : i \in 1..Len(Wide)}

\* ord(c)
CodeOf ==
  [c \in Chars |->
     IF \E i \in 1..Len(Latin1) : Latin1[i] = c
       THEN (CHOOSE i \in 1..Len(Latin1) : Latin1[i] = c) - 1
       ELSE Wide[CHOOSE i \in 1..Len(Wide) : Wide[i][1] = c][2]]

CodePoint(c) == CodeOf[c]

\* chr(n)
Chr(n) ==
  IF n < Len(Latin1) THEN Latin1[n + 1]
  ELSE Wide[CHOOSE i \in 1..Len(Wide) : Wide[i][2] = n][1]

\* c.upper() for one character c: a string, since the upper case of U+00DF
\* is "SS"
UpperChar(c) ==
  IF CodePoint(c) \in (97..122) \cup (224..246) \cup (248..254)
    THEN <<Chr(CodePoint(c) - 32)>>
  ELSE IF CodePoint(c) = 223 THEN <<"S","S">>
  ELSE IF CodePoint(c) = 255 THEN <<Chr(376)>>
  ELSE IF CodePoint(c) \in {181, 956} THEN <<Chr(924)>>
  ELSE <<c>>

\* c.lower() for one character c
LowerChar(c) ==
  IF CodePoint(c) \in (65..90) \cup (192..214) \cup (216..222)
    THEN <<Chr(CodePoint(c) + 32)>>
  ELSE IF CodePoint(c) = 376 THEN <<Chr(255)>>
  ELSE IF CodePoint(c) = 924 THEN <<Chr(956)>>
  ELSE <<c>>

\* s.upper()
RECURSIVE Upper(_)
Upper(s) == IF s = <<>> THEN <<>> ELSE UpperChar(Head(s)) \o Upper(Tail(s))

\* s.lower()
RECURSIVE Lower(_)
Lower(s) == IF s = <<>> THEN <<>> ELSE LowerChar(Head(s)) \o Lower(Tail(s))

\* c.isspace(): the characters str.strip() removes
IsSpace(c) == CodePoint(c) \in {9, 10, 11, 12, 13, 28, 29, 30, 31, 32, 133, 160, 5760, 8192, 8193, 8194, 8195, 8196, 8197, 8198, 8199, 8200, 8201, 8202, 8232, 8233, 8239, 8287, 12288}

RECURSIVE LStrip(_)
LStrip(s) ==
  IF s # <<>> /\ IsSpace(Head(s)) THEN LStrip(Tail(s)) ELSE s

RECURSIVE RStrip(_)
RStrip(s) ==
  IF s # <<>> /\ IsSpace(s[Len(s)]) THEN RStrip(SubSeq(s, 1, Len(s) - 1)) ELSE s

\* s.strip()
Strip(s) == LStrip(RStrip(s))

\* str(n) for a natural number n
RECURSIVE NatStr(_)
NatStr(n) ==
  IF n < 10 THEN <<Digits[n + 1]>>
  ELSE NatStr(n \div 10) \o <<Digits[(n % 10) + 1]>>

\* str(cell): the string representation of a spreadsheet cell value
CellStr(c) ==
  CASE c.t = "s" -> c.v
    [] c.t = "i" -> NatStr(c.v)
    [] c.t = "f" -> NatStr(c.v) \o <<".","0">>
    [] OTHER -> <<"n","a","n">>

\* Python's order on strings (by code point), used to break ties between
\* equally similar headers
RECURSIVE StrLess(_, _)
StrLess(s, t) ==
  IF t = <<>> THEN FALSE
  ELSE IF s = <<>> THEN TRUE
  ELSE IF Head(s) = Head(t) THEN StrLess(Tail(s), Tail(t))
  ELSE CodePoint(Head(s)) < CodePoint(Head(t))

-----------------------------------------------------------------------------
(* difflib.SequenceMatcher (no junk; autojunk needs 200 characters) and    *)
(* difflib.get_close_matches, as load_data calls them.                     *)

Min(x, y) == IF x < y THEN x ELSE y

\* length of the common run of a and b that starts at a[i], b[j] and stays
\* below ahi, bhi (indices are 1-based, ahi and bhi exclusive)
RECURSIVE RunLen(_, _, _, _, _, _)
RunLen(a, b, i, j, ahi, bhi) ==
  IF i < ahi /\ j < bhi /\ a[i] = b[j]
    THEN 1 + RunLen(a, b, i + 1, j + 1, ahi, bhi)
    ELSE 0

\* the order in which find_longest_match prefers block p (of size lp) to
\* block q (of size lq): longer; else earlier in a; else earlier in b
Preferred(p, lp, q, lq) ==
  \/ lq < lp
  \/ /\ lq = lp
     /\ \/ p[1] < q[1]
        \/ p[1] = q[1] /\ p[2] <= q[2]

\* <<i, j, size>> of the block that starts at p
Block(a, b, ahi, bhi, p) == <<p[1], p[2], RunLen(a, b, p[1], p[2], ahi, bhi)>>

\* the preferred block among those starting at the pairs in starts
BestBlock(a, b, alo, ahi, blo, bhi, starts) ==
  IF starts = {} THEN <<alo, blo, 0>>
  ELSE Block(a, b, ahi, bhi,
             CHOOSE p \in starts :
               \A q \in starts :
                 Preferred(p, RunLen(a, b, p[1], p[2], ahi, bhi),
                           q, RunLen(a, b, q[1], q[2], ahi, bhi)))

\* SequenceMatcher.find_longest_match: the longest block; of those the one
\* earliest in a; of those the one earliest in b.  <<alo, blo, 0>> if none.
FindLongestMatch(a, b, alo, ahi, blo, bhi) ==
  BestBlock(a, b, alo, ahi, blo, bhi,
            {p \in (alo..(ahi - 1)) \X (blo..(bhi - 1)) : a[p[1]] = b[p[2]]})

\* the total size of SequenceMatcher.get_matching_blocks(): the longest
\* block m, then the blocks to its left and to its right
RECURSIVE Matches(_, _, _, _, _, _)
RECURSIVE MatchesAround(_, _, _, _, _, _, _)
MatchesAround(a, b, alo, ahi, blo, bhi, m) ==
  IF m[3] = 0 THEN 0
  ELSE m[3]
       + Matches(a, b, alo, m[1], blo, m[2])
       + Matches(a, b, m[1] + m[3], ahi, m[2] + m[3], bhi)

Matches(a, b, alo, ahi, blo, bhi) ==
  IF alo >= ahi \/ blo >= bhi THEN 0
  ELSE MatchesAround(a, b, alo, ahi, blo, bhi,
                     FindLongestMatch(a, b, alo, ahi, blo, bhi))

\* number of characters the two strings share as multisets (quick_ratio)
RECURSIVE Avail(_, _, _)
Avail(b, c, n) ==
  IF n = 0 THEN 0 ELSE (IF b[n] = c THEN 1 ELSE 0) + Avail(b, c, n - 1)

RECURSIVE QuickMatches(_, _, _)
QuickMatches(a, b, n) ==
  IF n = 0 THEN 0
  ELSE QuickMatches(a, b, n - 1)
       + (IF Avail(a, a[n], n) <= Avail(b, a[n], Len(b)) THEN 1 ELSE 0)

\* the cutoff of get_close_matches as a fraction, 0.6 = CutoffNum / CutoffDen
CutoffNum == 3
CutoffDen == 5

\* 2.0 * matches / length >= cutoff  (_calculate_ratio; 1.0 when length = 0)
RatioAtLeastCutoff(matches, length) ==
  IF length = 0 THEN TRUE
  ELSE 2 * matches * CutoffDen >= CutoffNum * length

\* SequenceMatcher(a = x, b = word).ratio() as the fraction <<2 * M, T>>
\* (T > 0: an alias is never empty)
Ratio(x, word) ==
  <<2 * Matches(x, word, 1, Len(x) + 1, 1, Len(word) + 1), Len(x) + Len(word)>>

\* the test of get_close_matches: real_quick_ratio, quick_ratio and ratio
\* must all reach the cutoff
Qualifies(x, word) ==
  /\ RatioAtLeastCutoff(Min(Len(x), Len(word)), Len(x) + Len(word))
  /\ RatioAtLeastCutoff(QuickMatches(x, word, Len(x)), Len(x) + Len(word))
  /\ RatioAtLeastCutoff(Matches(x, word, 1, Len(x) + 1, 1, Len(word) + 1),
                        Len(x) + Len(word))

\* r1 < r2 for ratios given as fractions <<numerator, denominator>>
RatioLess(r1, r2) == r1[1] * r2[2] < r2[1] * r1[2]

\* the order on (score, x) pairs: by score, then by string
PairLess(ry, y, rx, x) ==
  \/ RatioLess(ry, rx)
  \/ ~RatioLess(rx, ry) /\ StrLess(y, x)

ScoredLess(word, y, x) == PairLess(Ratio(y, word), y, Ratio(x, word), x)

\* heapq.nlargest(1, result): the greatest of the qualifying possibilities
Largest(word, cand) ==
  IF cand = {} THEN {}
  ELSE {CHOOSE x \in cand : \A y \in cand : y = x \/ ScoredLess(word, y, x)}

\* difflib.get_close_matches(word, possibilities, n=1, cutoff=0.6): the set
\* holding the best qualifying possibility, or the empty set
GetCloseMatches(word, possibilities) ==
  Largest(word, {x \in possibilities : Qualifies(x, word)})

-----------------------------------------------------------------------------
(* Optional values: None is the empty tuple, a present value x is <<x>>.   *)

None == <<>>
Some(x) == <<x>>

\* Python truthiness of an optional string: None and "" are false
Truthy(o) == o # None /\ o[1] # <<>>

-----------------------------------------------------------------------------
(* load_data: the spreadsheet, its normalised headers and the Column Map.  *)

\* required_cols: the logical fields in order, each with its aliases in order
required_cols ==
  << <<"sku",      <<<<"s","k","u">>, <<"i","t","e","m">>, <<"i","t","e","m","c","o","d","e">>>> >>,
     <<"bom_desc", <<<<"b","o","m"," ","d","e","s","c","r","i","p","t","i","o","n">>, <<"b","o","m","d","e","s","c">>, <<"d","e","s","c","r","i","p","t","i","o","n">>>> >>,
     <<"bom_line", <<<<"b","o","m"," ","l","i","n","e"," ","d","e","s","c","r","i","p","t","i","o","n">>, <<"b","o","m","l","i","n","e">>, <<"l","i","n","e"," ","d","e","s","c","r","i","p","t","i","o","n">>>> >>,
     <<"isbn",     <<<<"i","s","b","n">>>> >>,
     <<"mrp",      <<<<"m","r","p">>>> >> >>

Fields == {required_cols[i][1] : i \in 1..Len(required_cols)}

Options(logical) ==
  required_cols[CHOOSE i \in 1..Len(required_cols) : required_cols[i][1] = logical][2]

\* the spreadsheet file does not exist
NoFile == [exists |-> FALSE, columns |-> <<>>, rows |-> <<>>]

\* pd.DataFrame(): no columns, no rows
EmptyFrame == [columns |-> <<>>, dtypes |-> <<>>, rows |-> <<>>]

\* headers lower-cased but not trimmed
NormalizeNoStrip(h) == Lower(h)

\* df.columns.str.strip().str.lower() on one header
Normalize(h) == Lower(Strip(h))

\* the name read_excel gives the column of an empty header cell: it is named
\* after the position of the column
Unnamed(i) == <<"U","n","n","a","m","e","d",":"," ">> \o NatStr(i - 1)

Named(x, i) == IF x.columns[i] = <<>> THEN Unnamed(i) ELSE x.columns[i]

\* the order in which read_excel makes the names unique: the columns with a
\* header first, then those without
IsNamed(x, i) == x.columns[i] # <<>>

LoopOrder(x) ==
  SelectSeq([i \in 1..Len(x.columns) |-> i], LAMBDA i : IsNamed(x, i))
    \o SelectSeq([i \in 1..Len(x.columns) |-> i], LAMBDA i : ~IsNamed(x, i))

\* counts[col], 0 for a name not counted yet
Count(counts, col) == IF col \in DOMAIN counts THEN counts[col] ELSE 0

\* counts[col] = n
Put(counts, col, n) ==
  [c \in DOMAIN counts \cup {col} |-> IF c = col THEN n ELSE counts[c]]

InColumns(cols, col) == \E i \in 1..Len(cols) : cols[i] = col

\* the loop that renames a repeated name old, seen cur times before: the
\* suffix grows while the suffixed name is itself a column or was given out
RECURSIVE Suffixed(_, _, _, _)
RECURSIVE SuffixedNext(_, _, _, _, _)
SuffixedNext(cols, counts, old, col, nxt) ==
  IF nxt > 0 THEN Suffixed(cols, counts, old, nxt)
  ELSE [col |-> col, counts |-> counts]

Suffixed(cols, counts, old, cur) ==
  SuffixedNext(cols, Put(counts, old, cur + 1), old,
               old \o <<".">> \o NatStr(cur),
               IF InColumns(cols, old \o <<".">> \o NatStr(cur))
                 THEN cur + 1
                 ELSE Count(Put(counts, old, cur + 1), old \o <<".">> \o NatStr(cur)))

\* one column renamed if its name was counted before
Renamed(cols, counts, i) ==
  IF Count(counts, cols[i]) > 0
    THEN Suffixed(cols, counts, cols[i], Count(counts, cols[i]))
    ELSE [col |-> cols[i], counts |-> counts]

RECURSIVE Dedup(_, _, _, _)
RECURSIVE DedupNext(_, _, _, _, _)
DedupNext(cols, r, order, k, i) ==
  Dedup([cols EXCEPT ![i] = r.col], Put(r.counts, r.col, 1), order, k + 1)

Dedup(cols, counts, order, k) ==
  IF k > Len(order) THEN cols
  ELSE DedupNext(cols, Renamed(cols, counts, order[k]), order, k, order[k])

\* the column names of the frame read_excel returns
ColumnNames(x) ==
  Dedup([i \in 1..Len(x.columns) |-> Named(x, i)], <<>>, LoopOrder(x), 1)

\* the texts read_excel reads as a missing value (keep_default_na)
NaStrings ==
  {<<"-","1",".","#","I","N","D">>, <<"1",".","#","Q","N","A","N">>,
   <<"1",".","#","I","N","D">>, <<"-","1",".","#","Q","N","A","N">>,
   <<"#","N","/","A"," ","N","/","A">>, <<"#","N","/","A">>, <<"N","/","A">>,
   <<"n","/","a">>, <<"N","A">>, <<"<","N","A",">">>, <<"#","N","A">>,
   <<"N","U","L","L">>, <<"n","u","l","l">>, <<"N","a","N">>,
   <<"-","N","a","N">>, <<"n","a","n">>, <<"-","n","a","n">>,
   <<"N","o","n","e">>, <<>>}

\* a cell as read_excel parses it: a text that spells a missing value is
\* missing
Parsed(c) == IF c.t = "s" /\ c.v \in NaStrings THEN [t |-> "nan"] ELSE c

\* the text is a whole number in decimal digits, leading zeros allowed.
\* (A text cell of the model spells a number in no other way: it has no
\* sign, fraction or exponent and is not a spelling of infinity.)
IsDigits(v) ==
  v # <<>> /\ \A k \in 1..Len(v) : \E d \in 1..Len(Digits) : v[k] = Digits[d]

\* int(v) for a text of decimal digits
RECURSIVE NatVal(_)
NatVal(v) ==
  IF v = <<>> THEN 0
  ELSE NatVal(SubSeq(v, 1, Len(v) - 1)) * 10
         + (CHOOSE d \in 0..9 : Digits[d + 1] = v[Len(v)])

\* read_excel can make a number of the parsed cell: it is a number, is
\* missing, or is a text that spells a number
Numeric(c) == c.t \in {"i", "nan"} \/ (c.t = "s" /\ IsDigits(c.v))

\* the parsed cell in a column read_excel made numeric: a text that spells
\* a number is that number ("00123" is 123)
AsNumber(c) == IF c.t = "s" THEN [t |-> "i", v |-> NatVal(c.v)] ELSE c

\* the dtype read_excel infers for a column from its cells: the column is
\* numeric when a number can be made of every cell (float64 with a missing
\* value, else int64); a single text that spells no number makes it object
\* and leaves every cell as parsed
Dtype(cells) ==
  IF cells = {} \/ \E c \in cells : ~Numeric(Parsed(c)) THEN "object"
  ELSE IF \E c \in cells : Parsed(c).t = "nan" THEN "float64"
  ELSE "int64"

ColumnDtype(x, i) == Dtype({x.rows[r][i] : r \in 1..Len(x.rows)})

\* a value held in a column or Series of the given dtype: a whole number
\* in a float64 one is a float
Held(c, dtype) ==
  IF dtype = "float64" /\ c.t = "i" THEN [t |-> "f", v |-> c.v] ELSE c

\* the cell c as read into a column of the given dtype
Read(c, dtype) ==
  IF dtype = "object" THEN Parsed(c) ELSE Held(AsNumber(Parsed(c)), dtype)

\* pd.read_excel(EXCEL_FILE) followed by the normalisation of the headers
ReadExcel(x) ==
  [columns |-> [i \in 1..Len(x.columns) |-> Normalize(ColumnNames(x)[i])],
   dtypes  |-> [i \in 1..Len(x.columns) |-> ColumnDtype(x, i)],
   rows    |-> [r \in 1..Len(x.rows) |->
                 [i \in 1..Len(x.columns) |->
                    Read(x.rows[r][i], ColumnDtype(x, i))]]]

ColumnSet(df) == {df.columns[i] : i \in 1..Len(df.columns)}

\* the inner loop of load_data without its break: the last option that has
\* a match wins
RECURSIVE FirstMatchNoBreak(_, _, _)
FirstMatchNoBreak(options, columns, k) ==
  IF k > Len(options) THEN {}
  ELSE IF FirstMatchNoBreak(options, columns, k + 1) # {}
    THEN FirstMatchNoBreak(options, columns, k + 1)
    ELSE GetCloseMatches(Lower(options[k]), columns)

\* the inner loop of load_data: the match of the first option that has one,
\* from option k on; the empty set when no option has a match
RECURSIVE FirstMatch(_, _, _)
RECURSIVE MatchOrNext(_, _, _, _)
MatchOrNext(matches, options, columns, k) ==
  IF matches # {} THEN matches ELSE FirstMatch(options, columns, k + 1)

FirstMatch(options, columns, k) ==
  IF k > Len(options) THEN {}
  ELSE MatchOrNext(GetCloseMatches(Lower(options[k]), columns),
                   options, columns, k)

\* col_map, given the match found for every logical field
MapOf(found) ==
  [f \in {g \in Fields : found[g] # {}} |-> CHOOSE h \in found[f] : TRUE]

\* the outer loop of load_data: the Column Map of a set of headers
ColMap(columns) ==
  MapOf([f \in Fields |-> FirstMatch(Options(f), columns, 1)])

\* the frame with its Column Map
Resolved(df) == [df |-> df, col_map |-> ColMap(ColumnSet(df))]

\* load_data(): the frame and the Column Map
load_data(x) ==
  IF ~x.exists THEN [df |-> EmptyFrame, col_map |-> <<>>]
  ELSE Resolved(ReadExcel(x))

\* df.empty: some axis has length 0
FrameEmpty(df) == Len(df.columns) = 0 \/ Len(df.rows) = 0

ColIndex(df, col) == CHOOSE i \in 1..Len(df.columns) : df.columns[i] = col

\* df[col][r]: the cell of row r in column col
Cell(df, r, col) == df.rows[r][ColIndex(df, col)]

\* the dtype of a row taken as a Series (df.iloc[r]): object when some column
\* is, else float64 when some column is, else int64
RowDtype(df) ==
  IF \E i \in 1..Len(df.dtypes) : df.dtypes[i] = "object" THEN "object"
  ELSE IF \E i \in 1..Len(df.dtypes) : df.dtypes[i] = "float64" THEN "float64"
  ELSE "int64"

\* df.iloc[r][col]: the value of column col in row r taken as a Series
RowCell(df, r, col) == Held(Cell(df, r, col), RowDtype(df))

-----------------------------------------------------------------------------
(* generate_label: record lookup, label data, layout and the files.        *)

NotAvailable == <<"N","/","A">>

\* Lookup comparing the cell as spelled (the cell is not upper-cased)
LookupCaseSensitive(df, col_map, sku_input) ==
  LET sku_upper == Upper(sku_input)
      Hit(r) == CellStr(Cell(df, r, col_map["sku"])) = sku_upper
  IN  SelectSeq([r \in 1..Len(df.rows) |-> r], Hit)

\* the rows of df whose sku cell, as an upper-cased string, equals the
\* upper-cased input, in table order (a sequence of row numbers)
Lookup(df, col_map, sku_input) ==
  LET sku_upper == Upper(sku_input)
      Hit(r) == Upper(CellStr(Cell(df, r, col_map["sku"]))) = sku_upper
  IN  SelectSeq([r \in 1..Len(df.rows) |-> r], Hit)

\* row.get(col, "N/A") for the row bom_info.iloc[0]
RowGet(df, r, col) ==
  IF \E i \in 1..Len(df.columns) : df.columns[i] = col
    THEN CellStr(RowCell(df, r, col))
    ELSE NotAvailable

\* str(bom_info.iloc[0].get(col_map.get(field, ""), "N/A"))
FirstValue(df, col_map, bom_info, field) ==
  RowGet(df, bom_info[1], IF field \in DOMAIN col_map THEN col_map[field] ELSE <<>>)

\* override_mrp if override_mrp else the MRP of the first matching row
Price(df, col_map, bom_info, override_mrp) ==
  IF Truthy(override_mrp) THEN override_mrp[1]
  ELSE FirstValue(df, col_map, bom_info, "mrp")

\* bom_info[col_map["bom_line"]].tolist() if "bom_line" in col_map else []
LineItems(df, col_map, bom_info) ==
  IF "bom_line" \in DOMAIN col_map
    THEN [k \in 1..Len(bom_info) |-> Cell(df, bom_info[k], col_map["bom_line"])]
    ELSE <<>>

\* the values generate_label computes before it draws
LabelData(df, col_map, bom_info, override_mrp) ==
  [desc       |-> FirstValue(df, col_map, bom_info, "bom_desc"),
   isbn       |-> FirstValue(df, col_map, bom_info, "isbn"),
   mrp        |-> Price(df, col_map, bom_info, override_mrp),
   qty        |-> Len(bom_info),
   line_items |-> LineItems(df, col_map, bom_info)]

\* layout constants of generate_label
CanvasWidth == 1200
CanvasHeight == 891
ContentsTop == 85
HeadingStep == 40
MaxItems == 12
ItemStep == 42
BoxTop == 680
BoxBottom == 870
BoxHeight == 190
InfoLineHeight == 38
InfoLineStep == 42
PageWidth == 288
PageHeight == 214

\* line_items without the [:12]
TruncateNone(items) == items

\* line_items[:12]
Truncate(items) == SubSeq(items, 1, Min(Len(items), MaxItems))

\* the contents lines: f"{i}. {item}" at (50, y), y advancing by 42
ContentLines(line_items) ==
  LET shown == Truncate(line_items)
  IN  [i \in 1..Len(shown) |->
         [y    |-> ContentsTop + HeadingStep + (i - 1) * ItemStep,
          text |-> NatStr(i) \o <<"."," ">> \o CellStr(shown[i])]]

\* info_lines
InfoText(data) ==
  << <<"I","S","B","N",":"," ">> \o data.isbn,
     <<"Q","t","y",":"," ">> \o NatStr(data.qty) \o <<" ","I","t","e","m","s">>,
     <<"M","R","P",":"," ","<rupee>">> \o data.mrp >>

\* start_y = box_top + (190 - total_text_height) // 2
InfoStartY(nlines) == BoxTop + ((BoxHeight - nlines * InfoLineHeight) \div 2)

\* the info box lines at (box_left + 20, start_y + i * 42)
InfoLines(data) ==
  LET text == InfoText(data)
  IN  [i \in 1..Len(text) |->
         [y    |-> InfoStartY(Len(text)) + (i - 1) * InfoLineStep,
          text |-> text[i]]]

\* a label file name built from the upper-cased SKU
LabelNameUpper(sku_input) == Upper(sku_input) \o <<"_","l","a","b","e","l",".","p","n","g">>

\* the file names under OUTPUT_DIR
BarcodeName(sku_input) == sku_input \o <<"_","b","a","r","c","o","d","e">> \o <<".","p","n","g">>
LabelName(sku_input) == sku_input \o <<"_","l","a","b","e","l",".","p","n","g">>
PdfName(sku) == sku \o <<"_","l","a","b","e","l",".","p","d","f">>

\* barcode.get("code128", sku_input).save(..., {"write_text": False})
BarcodeImage(sku_input) ==
  [kind |-> "barcode", code |-> sku_input, write_text |-> FALSE]

\* the composed label: the canvas with everything generate_label draws
LabelImage(sku_input, data, barcode_img) ==
  [kind     |-> "label",
   size     |-> <<CanvasWidth, CanvasHeight>>,
   title    |-> data.desc,
   contents |-> ContentLines(data.line_items),
   info     |-> InfoLines(data),
   barcode  |-> barcode_img,
   sku      |-> sku_input]

\* canvas.Canvas(pdf_path, pagesize=(288, 214)) with the label drawn on it
PdfDocument(image) ==
  [kind |-> "pdf", pagesize |-> <<PageWidth, PageHeight>>, image |-> image]

\* a file written whole: name -> content
WriteFile(fs, name, content) ==
  [n \in DOMAIN fs \cup {name} |-> IF n = name THEN content ELSE fs[n]]

ErrMissing == "Excel file or SKU column missing."
ErrNotFound == "<U+274C> SKU not found!"
ErrNoSku == "Please enter a SKU."
ErrInvalid == "Excel file missing or invalid format."


\* the file operations generate_label goes through when it composes
LabelSteps ==
  <<"barcode_open", "barcode_write", "barcode_read", "label_open", "label_write">>

\* the file operations of download_pdf after generate_label returned a label
PdfSteps ==
  <<"pdf_draw", "pdf_open", "pdf_write", "pdf_send", "pdf_stream", "pdf_end">>

\* saving the barcode before the rows found are tested
ComposeStepsBarcodeFirst(bom_info) ==
  IF bom_info = <<>> THEN <<"barcode_open", "barcode_write">> ELSE LabelSteps

\* if bom_info.empty: return None, "SKU not found!"; else the barcode and the
\* label are saved
ComposeSteps(bom_info) == IF bom_info = <<>> THEN <<>> ELSE LabelSteps

\* generate_label for the rows found, up to "# Barcode": the error returned
\* there, or the values to draw (data) and the file operations to come (todo)
Compose(ld, bom_info, override_mrp) ==
  [error    |-> IF bom_info = <<>> THEN Some(ErrNotFound) ELSE None,
   col_map  |-> ld.col_map,
   bom_info |-> bom_info,
   data     |-> IF bom_info = <<>> THEN <<>>
                ELSE LabelData(ld.df, ld.col_map, bom_info, override_mrp),
   todo     |-> ComposeSteps(bom_info)]

\* generate_label after load_data, up to "# Barcode"
GenerateFrom(ld, sku_input, override_mrp) ==
  IF FrameEmpty(ld.df) \/ "sku" \notin DOMAIN ld.col_map
    THEN [error |-> Some(ErrMissing), col_map |-> ld.col_map,
          bom_info |-> <<>>, data |-> <<>>, todo |-> <<>>]
    ELSE Compose(ld, Lookup(ld.df, ld.col_map, sku_input), override_mrp)

-----------------------------------------------------------------------------
(* The inputs: spreadsheets and requests.                                  *)

\* rows of the largest kit, rows of the other spreadsheets, requests per run,
\* threads of the server
MaxRows == 13
SmallRows == 3
MaxRequests == 2
NumProcs == 2

\* headers of the spreadsheets, each with the kind of value its column holds
HeaderSets ==
  << << [h |-> <<"S","K","U">>, f |-> "sku"], [h |-> <<"B","O","M"," ","D","e","s","c","r","i","p","t","i","o","n">>, f |-> "desc"],
        [h |-> <<"B","O","M"," ","L","i","n","e"," ","D","e","s","c","r","i","p","t","i","o","n">>, f |-> "line"],
        [h |-> <<"I","S","B","N">>, f |-> "isbn"], [h |-> <<"M","R","P">>, f |-> "mrp"] >>,
     << [h |-> <<" ","I","t","e","m"," ","C","o","d","e"," ">>, f |-> "sku"], [h |-> <<"D","e","s","c","r","i","p","t","i","o","n">>, f |-> "desc"],
        [h |-> <<"P","r","i","c","e">>, f |-> "mrp"] >>,
     << [h |-> <<"N","a","m","e">>, f |-> "desc"], [h |-> <<"Q","t","y">>, f |-> "other"] >>,
     << [h |-> <<"M","R","P">>, f |-> "mrp"], [h |-> <<"I","t","e","m">>, f |-> "sku"],
        [h |-> <<"I","S","B","N"," ">>, f |-> "isbn"] >> >>

\* the sku cell of row i under pattern pat
SkuCell(i, pat) ==
  CASE pat = 1 -> [t |-> "s", v |-> <<"A","B","C","1">>]
    [] pat = 2 -> IF i % 2 = 1 THEN [t |-> "s", v |-> <<"a","b","c","1">>]
                               ELSE [t |-> "s", v |-> <<"X","9">>]
    [] pat = 3 -> IF i % 3 = 1 THEN [t |-> "i", v |-> 123]
                  ELSE IF i % 3 = 2 THEN [t |-> "s", v |-> <<"A","b","c","1">>]
                  ELSE [t |-> "s", v |-> <<"A","B","C","1">>]
    [] pat = 4 -> IF i % 2 = 1 THEN [t |-> "i", v |-> 123] ELSE [t |-> "nan"]
    [] OTHER   -> IF i % 2 = 1 THEN [t |-> "s", v |-> <<"0","0","1","2","3">>]
                               ELSE [t |-> "i", v |-> 123]

\* the cells of row i under pattern pat
RowValues(i, pat) ==
  [sku   |-> SkuCell(i, pat),
   desc  |-> [t |-> "s", v |-> <<"K","i","t">> \o NatStr(i)],
   line  |-> IF i % 4 = 0 THEN [t |-> "i", v |-> i]
                          ELSE [t |-> "s", v |-> <<"W">> \o NatStr(i)],
   isbn  |-> IF i = 1 THEN [t |-> "s", v |-> <<"N","/","A">>]
                      ELSE [t |-> "i", v |-> 978 + i],
   mrp   |-> [t |-> "i", v |-> 499 + i],
   other |-> [t |-> "i", v |-> i]]

Table(hs, n, pat) ==
  [exists  |-> TRUE,
   columns |-> [c \in 1..Len(hs) |-> hs[c].h],
   rows    |-> [i \in 1..n |-> [c \in 1..Len(hs) |-> RowValues(i, pat)[hs[c].f]]]]

\* the spreadsheets: none; one kit of up to MaxRows rows; and short tables
\* under every set of headers, empty or with sku cells that are all alike
\* (pattern 1), vary in case and type (patterns 2 and 3), are numbers with
\* empty cells (pattern 4) or numbers and texts that spell numbers (pattern
\* 5).  The headers of a spreadsheet of the model stay distinct after
\* normalisation.
Tables ==
  {NoFile}
  \cup {Table(HeaderSets[1], n, 1) : n \in 0..MaxRows}
  \cup {Table(HeaderSets[k], 0, 1) : k \in 1..Len(HeaderSets)}
  \cup {Table(HeaderSets[k], n, pat) :
          k \in 1..Len(HeaderSets), n \in 1..SmallRows, pat \in 1..5}

\* the forms posted to /: the sku field, the mrp field, the generate button
Forms ==
  {[sku |-> Some(<<>>), mrp |-> None, generate |-> TRUE],
   [sku |-> Some(<<" ","a","b","c","1"," ">>), mrp |-> Some(<<>>), generate |-> TRUE],
   [sku |-> Some(<<"A","B","C","1">>), mrp |-> Some(<<"N","A">>), generate |-> TRUE],
   [sku |-> Some(<<"A","B","C","1">>), mrp |-> None, generate |-> FALSE],
   [sku |-> Some(<<"1","2","3">>), mrp |-> None, generate |-> TRUE],
   [sku |-> Some(<<"z","z">>), mrp |-> None, generate |-> TRUE]}

\* the paths /download/<sku>/<mrp> requested
Paths ==
  {[sku |-> <<"a","b","c","1">>, mrp |-> <<"N","A">>],
   [sku |-> <<"A","B","C","1">>, mrp |-> <<"9","9","9">>],
   [sku |-> <<"z","z">>, mrp |-> <<"N","A">>]}

-----------------------------------------------------------------------------
\* load_data() on the spreadsheet on disk.  Every request reloads it; the
\* result depends on the file alone, so it is computed once per spreadsheet.
Loaded == [x \in Tables |-> load_data(x)]

Load(x) == Loaded[x]

-----------------------------------------------------------------------------
(* The request handlers.  The development server handles each request in   *)
(* its own thread; the threads share the output directory.  A handler runs *)
(* from the arrival of its request to its first file operation in one      *)
(* step, and is cut at its file operations after that.  Saving a file      *)
(* opens it for writing, which empties it, and then writes it: between the *)
(* two the file is partial.  A file sent is read after the handler has     *)
(* returned, in the thread of its request.                                 *)

\* generate_label(sku_input, override_mrp) up to "# Barcode"
generate_label(x, sku_input, override_mrp) ==
  GenerateFrom(Load(x), sku_input, override_mrp)

\* what a handler returns: the arguments of render_template for the form,
\* the text or the attachment for the download; with it, for inspection, the
\* handler's locals col_map and bom_info, the label image it drew (composed),
\* the request as received (req) and the requests that were being handled
\* while this one was (overlap)
NoResponse ==
  [route |-> "none", label |-> None, error |-> None, sku |-> None,
   product_name |-> None, mrp |-> None, text |-> None, attachment |-> None,
   col_map |-> <<>>, bom_info |-> <<>>, composed |-> None, req |-> None,
   overlap |-> {}]

\* the threads of the server
Procs == 1..NumProcs

\* a thread: idle, or handling request req with the file operations todo
\* ahead of it and the page it returns unless one of them fails
IdleProc ==
  [active |-> FALSE, todo |-> <<>>, req |-> None, route |-> "none",
   sku |-> <<>>, page |-> NoResponse, data |-> <<>>, barcode_img |-> <<>>,
   composed |-> None, image |-> <<>>, overlap |-> {}]

\* the content of a file that is open for writing and not yet written
Partial == [kind |-> "partial"]

\* the content of a file two threads wrote piece by piece at once
Garbled == [kind |-> "garbled"]

\* the content of a file written over a longer one left by another thread:
\* the bytes of content followed by the tail of the other's
Mixed(content) == [kind |-> "mixed", head |-> content]

\* what a client receives of a file rewritten while it was streamed: the
\* start of what the file held first, then of what it held afterwards
Torn(first, rest) == [kind |-> "torn", first |-> first, rest |-> rest]

\* an unhandled exception in a handler: the 500 response
Fault == "Internal Server Error"

\* (request.form.get("sku") or "").strip()
FormSku(field) == IF Truthy(field) THEN Strip(field[1]) ELSE <<>>

\* request.form.get("mrp") or None
FormMrp(field) == IF Truthy(field) THEN field ELSE None

\* index() on a POST: what is echoed for the rows found
IndexEcho(ld, bom_info, override_mrp) ==
  IF bom_info # <<>>
    THEN [error |-> None,
          product_name |->
            Some(FirstValue(ld.df, ld.col_map, bom_info, "bom_desc")),
          mrp |-> Some(Price(ld.df, ld.col_map, bom_info, override_mrp)),
          col_map |-> ld.col_map, bom_info |-> bom_info]
    ELSE [error |-> Some(ErrNotFound), product_name |-> None,
          mrp |-> None, col_map |-> ld.col_map, bom_info |-> <<>>]

\* index() on a POST: the checks after load_data
IndexCheck(ld, sku_input, override_mrp) ==
  IF sku_input = <<>>
    THEN [error |-> Some(ErrNoSku), product_name |-> None, mrp |-> None,
          col_map |-> ld.col_map, bom_info |-> <<>>]
  ELSE IF FrameEmpty(ld.df) \/ "sku" \notin DOMAIN ld.col_map
    THEN [error |-> Some(ErrInvalid), product_name |-> None, mrp |-> None,
          col_map |-> ld.col_map, bom_info |-> <<>>]
  ELSE IndexEcho(ld, Lookup(ld.df, ld.col_map, sku_input), override_mrp)

\* index() on a POST up to the generate test
IndexLookup(x, sku_input, override_mrp) ==
  IndexCheck(Load(x), sku_input, override_mrp)

\* the page index() renders
IndexPage(sku_input, look, label, error) ==
  [NoResponse EXCEPT !.route = "index", !.label = label, !.error = error,
                     !.sku = Some(sku_input),
                     !.product_name = look.product_name, !.mrp = look.mrp,
                     !.col_map = look.col_map, !.bom_info = look.bom_info]

\* index(): label, error = generate_label(sku_input, override_mrp), where
\* generate_label has got to "# Barcode" with gen; the page is the one
\* rendered when generate_label returns
IndexGenerate(sku_input, look, gen) ==
  [IdleProc EXCEPT
     !.active = TRUE, !.route = "index", !.sku = sku_input,
     !.todo = gen.todo, !.data = gen.data,
     !.page = IndexPage(sku_input, look,
                        IF gen.error = None THEN Some(LabelName(sku_input))
                                            ELSE None,
                        gen.error)]

\* index() on a POST from the generate test on:
\* if "generate" in request.form and not error
IndexRespond(x, sku_input, override_mrp, generate, look) ==
  IF generate /\ look.error = None
    THEN IndexGenerate(sku_input, look,
                       generate_label(x, sku_input, override_mrp))
    ELSE [IdleProc EXCEPT
            !.active = TRUE, !.route = "index", !.sku = sku_input,
            !.page = IndexPage(sku_input, look, None, look.error)]

\* index() on a POST with form fields sku, mrp and the generate flag, up to
\* its first file operation
index(x, form_sku, form_mrp, generate) ==
  IndexRespond(x, FormSku(form_sku), FormMrp(form_mrp), generate,
               IndexLookup(x, FormSku(form_sku), FormMrp(form_mrp)))

PathNA == <<"N","A">>

\* return f"Error: {error}"
ErrorText(error) == Some(<<"Error: ", error[1]>>)

\* download_pdf after generate_label got to "# Barcode" with gen: the error
\* text, or the page sent once the label and the PDF are written
DownloadRespond(sku, gen) ==
  IF gen.error # None
    THEN [IdleProc EXCEPT
            !.active = TRUE, !.route = "download", !.sku = sku,
            !.todo = gen.todo,
            !.page = [NoResponse EXCEPT !.route = "download",
                                        !.error = gen.error,
                                        !.text = ErrorText(gen.error),
                                        !.sku = Some(sku),
                                        !.col_map = gen.col_map]]
    ELSE [IdleProc EXCEPT
            !.active = TRUE, !.route = "download", !.sku = sku,
            !.todo = gen.todo \o PdfSteps, !.data = gen.data,
            !.page = [NoResponse EXCEPT !.route = "download",
                                        !.label = Some(LabelName(sku)),
                                        !.sku = Some(sku),
                                        !.col_map = gen.col_map,
                                        !.bom_info = gen.bom_info]]

\* mrp_val = None if mrp == "NA" else mrp
MrpVal(mrp) == IF mrp = PathNA THEN None ELSE Some(mrp)

\* download_pdf(sku, mrp) up to its first file operation
download_pdf(x, sku, mrp) ==
  DownloadRespond(sku, generate_label(x, sku, MrpVal(mrp)))

\* the page of a request that ended in an exception
FaultPage(pr) ==
  [NoResponse EXCEPT !.route = pr.route, !.sku = Some(pr.sku),
                     !.error = Some(Fault), !.col_map = pr.page.col_map,
                     !.bom_info = pr.page.bom_info]

\* the response of a thread whose handler has returned
Delivered(pr) ==
  [pr.page EXCEPT !.composed = pr.composed, !.req = Some(pr.req),
                  !.overlap = pr.overlap]

\* a request req arrives while fewer than NumProcs are being handled; a
\* thread (the idle one of least number) runs its handler up to the first
\* file operation, where it is pr; a handler with none returns at once
Arrive(p, req, pr) ==
  /\ ~procs[p].active
  /\ \A q \in 1..(p - 1) : procs[q].active
  /\ served' = served + 1
  /\ procs' =
       [q \in Procs |->
          IF q = p
            THEN IF pr.todo = <<>> THEN IdleProc
                 ELSE [pr EXCEPT !.req = req,
                                 !.overlap = {procs[o].req : o \in {o \in Procs : procs[o].active}}]
          ELSE IF procs[q].active
            THEN [procs[q] EXCEPT !.overlap = @ \cup {req}]
          ELSE procs[q]]
  /\ resp' =
       IF pr.todo = <<>>
         THEN Delivered([pr EXCEPT !.req = req,
                                   !.overlap = {procs[o].req : o \in {o \in Procs : procs[o].active}}])
         ELSE resp
  /\ UNCHANGED <<excel, files>>

\* POST /
IndexPost(p, form) ==
  /\ served < MaxRequests
  /\ Arrive(p, [route |-> "index", method |-> "POST", sku |-> form.sku,
                mrp |-> form.mrp, generate |-> form.generate],
            index(excel, form.sku, form.mrp, form.generate))

\* GET /: the empty form
IndexGet(p) ==
  /\ served < MaxRequests
  /\ Arrive(p, [route |-> "index", method |-> "GET", sku |-> None,
                mrp |-> None, generate |-> FALSE],
            [IdleProc EXCEPT !.route = "index",
                             !.page = [NoResponse EXCEPT !.route = "index"]])

\* GET /download/<sku>/<mrp>
DownloadPdf(p, path) ==
  /\ served < MaxRequests
  /\ Arrive(p, [route |-> "download", method |-> "GET", sku |-> Some(path.sku),
                mrp |-> Some(path.mrp), generate |-> TRUE],
            download_pdf(excel, path.sku, path.mrp))

\* GET /cancel: redirect(url_for("index"))
Cancel(p) ==
  /\ served < MaxRequests
  /\ Arrive(p, [route |-> "cancel", method |-> "GET", sku |-> None,
                mrp |-> None, generate |-> FALSE],
            [IdleProc EXCEPT !.route = "cancel",
                             !.page = [NoResponse EXCEPT
                                         !.route = "cancel",
                                         !.text = Some(<<"redirect", "index">>)]])

\* thread p is at the file operation step
At(p, step) == procs[p].active /\ Head(procs[p].todo) = step

\* thread p has done a file operation and is pr; with none left its handler
\* returns and the response is sent
Advance(p, pr) ==
  /\ IF pr.todo = <<>>
       THEN /\ resp' = Delivered(pr)
            /\ procs' = [procs EXCEPT ![p] = IdleProc]
       ELSE /\ procs' = [procs EXCEPT ![p] = pr]
            /\ UNCHANGED resp
  /\ UNCHANGED <<excel, served>>

\* the operation ahead is done
Done(pr) == [pr EXCEPT !.todo = Tail(@)]

\* the operation ahead raised
Failed(pr) == [pr EXCEPT !.todo = <<>>, !.page = FaultPage(pr)]

\* what a file holds after a thread that opened it writes content to it: an
\* emptied file, or one that holds these very bytes, holds content; one
\* another thread has written since holds content, content followed by the
\* tail of the other's bytes, or pieces of both
WriteOutcomes(fs, name, content) ==
  IF fs[name] = Partial \/ fs[name] = content
    THEN {content}
    ELSE {content, Mixed(content), Garbled}

\* Image.open on what a file holds: no image in an emptied or garbled file;
\* bytes after the end of an image are not read
ReadImage(content) ==
  IF content = Partial \/ content = Garbled THEN None
  ELSE IF content.kind = "mixed" THEN Some(content.head)
  ELSE Some(content)

\* code128.save(barcode_base, ...): the file is opened for writing
OpenBarcode(p) ==
  /\ At(p, "barcode_open")
  /\ files' = WriteFile(files, BarcodeName(procs[p].sku), Partial)
  /\ Advance(p, Done(procs[p]))

\* code128.save(barcode_base, ...): the image is written
WriteBarcode(p) ==
  /\ At(p, "barcode_write")
  /\ \E content \in WriteOutcomes(files, BarcodeName(procs[p].sku),
                                  BarcodeImage(procs[p].sku)) :
       files' = WriteFile(files, BarcodeName(procs[p].sku), content)
  /\ Advance(p, Done(procs[p]))

\* the thread with the label drawn around the barcode image it read
Drawn(pr, barcode_img) ==
  [pr EXCEPT !.barcode_img = barcode_img,
             !.composed = Some(LabelImage(pr.sku, pr.data, barcode_img))]

\* Image.open(barcode_file).resize(...), and the label drawn around it
ReadBarcode(p) ==
  /\ At(p, "barcode_read")
  /\ Advance(p, IF ReadImage(files[BarcodeName(procs[p].sku)]) = None
                  THEN Failed(procs[p])
                  ELSE Done(Drawn(procs[p],
                                  ReadImage(files[BarcodeName(procs[p].sku)])[1])))
  /\ UNCHANGED files

\* label.save(...): the file is opened for writing
OpenLabel(p) ==
  /\ At(p, "label_open")
  /\ files' = WriteFile(files, LabelName(procs[p].sku), Partial)
  /\ Advance(p, Done(procs[p]))

\* label.save(...): the label is written; generate_label returns, and
\* index() renders its page
WriteLabel(p) ==
  /\ At(p, "label_write")
  /\ \E content \in WriteOutcomes(files, LabelName(procs[p].sku),
                                  procs[p].composed[1]) :
       files' = WriteFile(files, LabelName(procs[p].sku), content)
  /\ Advance(p, Done(procs[p]))

\* c.drawImage(label_path, ...): the label file is read
DrawImage(p) ==
  /\ At(p, "pdf_draw")
  /\ Advance(p, IF ReadImage(files[LabelName(procs[p].sku)]) = None
                  THEN Failed(procs[p])
                  ELSE Done([procs[p] EXCEPT
                               !.image = ReadImage(files[LabelName(procs[p].sku)])[1]]))
  /\ UNCHANGED files

\* c.save(): the PDF file is opened for writing
OpenPdf(p) ==
  /\ At(p, "pdf_open")
  /\ files' = WriteFile(files, PdfName(procs[p].sku), Partial)
  /\ Advance(p, Done(procs[p]))

\* c.save(): the PDF is written
WritePdf(p) ==
  /\ At(p, "pdf_write")
  /\ \E content \in WriteOutcomes(files, PdfName(procs[p].sku),
                                  PdfDocument(procs[p].image)) :
       files' = WriteFile(files, PdfName(procs[p].sku), content)
  /\ Advance(p, Done(procs[p]))

\* send_file(pdf_path, as_attachment=True): the file is opened and
\* download_pdf returns; the body is read from the file afterwards
SendFile(p) ==
  /\ At(p, "pdf_send")
  /\ Advance(p, Done(procs[p]))
  /\ UNCHANGED files

\* the first read of the response body found the file empty: the body ends
\* there and the response is complete
EmptyBody(pr) == [pr EXCEPT !.todo = <<>>, !.page.attachment = Some(Partial)]

\* the response body: the start of the file is read and sent; a first read
\* that returns nothing ends the body, and the file is not read again
StreamFile(p) ==
  /\ At(p, "pdf_stream")
  /\ Advance(p, IF files[PdfName(procs[p].sku)] = Partial
                  THEN EmptyBody(procs[p])
                  ELSE Done([procs[p] EXCEPT
                               !.page.attachment =
                                 Some(files[PdfName(procs[p].sku)])]))
  /\ UNCHANGED files

\* what is sent of a file that held first (not empty) when its start was
\* read and holds now when the rest is
Streamed(first, now) == IF now = first THEN first ELSE Torn(first, now)

\* the response body: the rest of the file is read and sent, and the
\* response is complete
EndStream(p) ==
  /\ At(p, "pdf_end")
  /\ Advance(p, Done([procs[p] EXCEPT
                        !.page.attachment =
                          Some(Streamed(@[1], files[PdfName(procs[p].sku)]))]))
  /\ UNCHANGED files

-----------------------------------------------------------------------------
(* The server.                                                             *)

Init ==
  /\ excel \in Tables
  /\ files = <<>>
  /\ resp = NoResponse
  /\ procs = [p \in Procs |-> IdleProc]
  /\ served = 0

Next ==
  \E p \in Procs :
    \/ \E form \in Forms : IndexPost(p, form)
    \/ IndexGet(p)
    \/ \E path \in Paths : DownloadPdf(p, path)
    \/ Cancel(p)
    \/ OpenBarcode(p)
    \/ WriteBarcode(p)
    \/ ReadBarcode(p)
    \/ OpenLabel(p)
    \/ WriteLabel(p)
    \/ DrawImage(p)
    \/ OpenPdf(p)
    \/ WritePdf(p)
    \/ SendFile(p)
    \/ StreamFile(p)
    \/ EndStream(p)

Spec == Init /\ [][Next]_vars


-----------------------------------------------------------------------------
(* load_data on its own, over many sets of headers.                        *)

MaxCols == 3

\* raw headers as a spreadsheet may spell them
HeaderPool ==
  << <<"S","K","U">>, <<" ","I","t","e","m"," ">>, <<"I","t","e","m","m">>, <<"I","t","e","m","C","o","d","e">>, <<"S","t","o","c","k">>,
     <<"B","O","M"," ","D","e","s","c","r","i","p","t","i","o","n">>, <<"B","o","m","D","e","s","c">>, <<"D","e","s","c","r","i","p","t","i","o","n">>,
     <<"B","O","M"," ","L","i","n","e"," ","D","e","s","c","r","i","p","t","i","o","n">>, <<"B","o","m","L","i","n","e">>, <<"L","i","n","e"," ","D","e","s","c","r","i","p","t","i","o","n">>,
     <<"I","S","B","N">>, <<"M","R","P">>, <<"P","r","i","c","e">> >>

\* the headers of the pool at the positions in idx, in pool order
RECURSIVE PickHeaders(_, _)
PickHeaders(idx, k) ==
  IF k > Len(HeaderPool) THEN <<>>
  ELSE (IF k \in idx THEN <<HeaderPool[k]>> ELSE <<>>) \o PickHeaders(idx, k + 1)

\* a one-row spreadsheet with the given headers
HeaderTable(idx) ==
  [exists  |-> TRUE,
   columns |-> PickHeaders(idx, 1),
   rows    |-> << [c \in 1..Cardinality(idx) |-> [t |-> "i", v |-> c]] >>]

HeaderTables ==
  {NoFile} \cup
  {HeaderTable(idx) : idx \in {i \in SUBSET (1..Len(HeaderPool)) : Cardinality(i) <= MaxCols}}

InitLoad ==
  /\ excel \in HeaderTables
  /\ files = <<>>
  /\ resp = NoResponse
  /\ procs = [p \in Procs |-> IdleProc]
  /\ served = 0

\* one call of load_data(); the Column Map is kept in resp.col_map
LoadData ==
  /\ served = 0
  /\ served' = 1
  /\ resp' = [NoResponse EXCEPT !.route = "load",
                                !.col_map = load_data(excel).col_map]
  /\ UNCHANGED <<excel, files, procs>>

NextLoad == LoadData

SpecLoad == InitLoad /\ [][NextLoad]_vars

-----------------------------------------------------------------------------
(* Claims about the Column Resolver (under SpecLoad).                      *)

\* the headers as the resolver sees them: trimmed and lower-cased
SeenHeaders == {Lower(Strip(excel.columns[i])) : i \in 1..Len(excel.columns)}

\* similarity(h, alias) >= 0.6, the ratio 2 * M / T of difflib
Similar(h, alias) ==
  RatioAtLeastCutoff(Matches(h, alias, 1, Len(h) + 1, 1, Len(alias) + 1),
                     Len(h) + Len(alias))

\* similarity(h1, alias1) < similarity(h2, alias2)
LessSimilar(h1, alias1, h2, alias2) ==
  RatioLess(Ratio(h1, alias1), Ratio(h2, alias2))

\* alias k of field f has some header with similarity >= 0.6
HasQualifying(f, k) == \E h \in SeenHeaders : Similar(h, Options(f)[k])

\* the first alias of f that has a qualifying header
FirstAlias(f) ==
  CHOOSE k \in 1..Len(Options(f)) :
    HasQualifying(f, k) /\ \A j \in 1..(k - 1) : ~HasQualifying(f, j)

\* C4: after load_data, a logical field is in the Column Map iff some alias
\* of it has a header with similarity >= 0.6, and its entry is then a header
\* of greatest similarity (>= 0.6) to the first alias that has any such
\* header, whatever later aliases would match.
C4_FirstAliasWins ==
  resp.route = "load" =>
    \A f \in Fields :
      /\ f \in DOMAIN resp.col_map <=> \E k \in 1..Len(Options(f)) : HasQualifying(f, k)
      /\ f \in DOMAIN resp.col_map =>
           /\ resp.col_map[f] \in SeenHeaders
           /\ Similar(resp.col_map[f], Options(f)[FirstAlias(f)])
           /\ \A h \in SeenHeaders :
                ~LessSimilar(resp.col_map[f], Options(f)[FirstAlias(f)],
                             h, Options(f)[FirstAlias(f)])

\* a field resolved through its first alias to an inexact header, while a
\* later alias matches another header better
C4_Witness ==
  /\ resp.route = "load"
  /\ \E f \in DOMAIN resp.col_map :
       /\ FirstAlias(f) = 1
       /\ resp.col_map[f] # Options(f)[1]
       /\ \E k \in 2..Len(Options(f)) : \E h \in SeenHeaders :
            /\ h # resp.col_map[f]
            /\ LessSimilar(resp.col_map[f], Options(f)[1], h, Options(f)[k])

\* C5 as stated: every header that equals an alias of a field, ignoring case
\* and surrounding spaces, is that field's entry in the Column Map.
C5_ExactAliasSelected ==
  resp.route = "load" =>
    \A h \in SeenHeaders : \A f \in Fields : \A k \in 1..Len(Options(f)) :
      h = Options(f)[k] => f \in DOMAIN resp.col_map /\ resp.col_map[f] = h

\* C5 amended: a header that equals an alias of a field, ignoring case and
\* surrounding spaces, is that field's entry in the Column Map provided no
\* earlier alias of the field has a header with similarity >= 0.6.
C5_ExactAliasSelectedIfFirst ==
  resp.route = "load" =>
    \A h \in SeenHeaders : \A f \in Fields : \A k \in 1..Len(Options(f)) :
      (h = Options(f)[k] /\ \A j \in 1..(k - 1) : ~HasQualifying(f, j))
        => f \in DOMAIN resp.col_map /\ resp.col_map[f] = h

\* a header spelled with capitals or spaces that equals a later alias and is
\* selected although another header is similar to that alias too
C5_Witness ==
  /\ resp.route = "load"
  /\ \E i \in 1..Len(excel.columns) : \E f \in DOMAIN resp.col_map :
       \E k \in 2..Len(Options(f)) :
         /\ excel.columns[i] # Options(f)[k]
         /\ Lower(Strip(excel.columns[i])) = Options(f)[k]
         /\ resp.col_map[f] = Options(f)[k]
         /\ \E h \in SeenHeaders : h # Options(f)[k] /\ Similar(h, Options(f)[k])

-----------------------------------------------------------------------------
(* Claims about the handlers (under Spec).                                 *)

\* the BOM Table: the spreadsheet as loaded
BomTable == Load(excel).df

\* the cell of row r of the BOM Table in the column with header col
RawCell(r, col) == Cell(BomTable, r, col)

\* the rows whose sku cell, stringified and upper-cased, equals UPPER(sku)
MatchSet(sku) ==
  IF "sku" \in DOMAIN resp.col_map
    THEN {r \in 1..Len(excel.rows) :
            Upper(CellStr(RawCell(r, resp.col_map["sku"]))) = Upper(sku)}
    ELSE {}

\* the i-th smallest element of a set of numbers
Nth(S, i) == CHOOSE r \in S : Cardinality({q \in S : q <= r}) = i

\* the last response is that of index() on a POST or of download_pdf()
Handled == resp.route \in {"index", "download"} /\ resp.sku # None

\* the label image the request of the last response composed
Composed == resp.composed[1]

\* the cell of row r of the spreadsheet in the column whose header resolved
\* to col
SheetCell(r, col) == excel.rows[r][ColIndex(BomTable, col)]

\* the string representation of a spreadsheet cell: a text as written, a
\* whole number in decimal digits
SheetStr(c) == IF c.t = "s" THEN c.v ELSE NatStr(c.v)

\* the rows of the spreadsheet whose sku cell holds a value whose string
\* representation, upper-cased, equals UPPER(sku)
SheetMatchSet(sku) ==
  IF "sku" \in DOMAIN resp.col_map
    THEN {r \in 1..Len(excel.rows) :
            /\ SheetCell(r, resp.col_map["sku"]).t # "nan"
            /\ Upper(SheetStr(SheetCell(r, resp.col_map["sku"]))) = Upper(sku)}
    ELSE {}

\* C2 as stated: the Product Record of the last request is exactly the rows
\* whose sku cell, converted to its string representation and upper-cased,
\* equals the upper-cased input, in table order.
C2_RecordIsCaseInsensitiveMatch ==
  (Handled /\ "sku" \in DOMAIN resp.col_map /\ resp.sku[1] # <<>>) =>
    resp.bom_info =
      [i \in 1..Cardinality(SheetMatchSet(resp.sku[1])) |->
         Nth(SheetMatchSet(resp.sku[1]), i)]

\* the caller of the last request supplied a price: a non-empty form field,
\* or a path value other than "NA"
PriceSupplied ==
  IF resp.route = "index"
    THEN resp.req[1].mrp # None /\ resp.req[1].mrp[1] # <<>>
    ELSE resp.req[1].mrp[1] # <<"N","A">>

\* the price the claim expects on the label of the last request
ExpectedPrice ==
  IF PriceSupplied THEN resp.req[1].mrp[1]
  ELSE IF "mrp" \in DOMAIN resp.col_map
    THEN CellStr(RawCell(Nth(MatchSet(resp.sku[1]), 1), resp.col_map["mrp"]))
    ELSE <<"N","/","A">>

MrpPrefix == <<"M","R","P",":"," ","<rupee>">>

\* C3: the MRP line of the composed label (and the price the form page
\* echoes) shows the supplied price verbatim when one was supplied, else the
\* string of the first matching row's MRP cell, or "N/A" without an mrp
\* column.
C3_PriceOverride ==
  (Handled /\ resp.composed # None) =>
    /\ Composed.info[3].text = MrpPrefix \o ExpectedPrice
    /\ resp.route = "index" => resp.mrp = Some(ExpectedPrice)

\* the quantity line and the contents lines the claim expects for n rows
QtyText(n) == <<"Q","t","y",":"," ">> \o NatStr(n) \o <<" ","I","t","e","m","s">>

ContentsAreFirstRows(n) ==
  /\ Len(Composed.contents) = (IF n < 12 THEN n ELSE 12)
  /\ \A i \in 1..Len(Composed.contents) :
       Composed.contents[i].text =
         NatStr(i) \o <<"."," ">>
           \o CellStr(RawCell(Nth(MatchSet(resp.sku[1]), i), resp.col_map["bom_line"]))

\* C6 as stated: for n >= 1 matching rows the label shows quantity n and
\* min(n, 12) contents lines, the bom_line values of the first rows, numbered.
C6_QuantityAndContents ==
  (Handled /\ resp.composed # None) =>
    /\ Composed.info[2].text = QtyText(Cardinality(MatchSet(resp.sku[1])))
    /\ ContentsAreFirstRows(Cardinality(MatchSet(resp.sku[1])))

\* C6 amended: the quantity is n; with a resolved bom_line column the
\* contents are the numbered bom_line values of the first min(n, 12) matching
\* rows; without one the contents list is empty.
C6_QuantityAndContentsIfResolved ==
  (Handled /\ resp.composed # None) =>
    /\ Composed.info[2].text = QtyText(Cardinality(MatchSet(resp.sku[1])))
    /\ IF "bom_line" \in DOMAIN resp.col_map
         THEN ContentsAreFirstRows(Cardinality(MatchSet(resp.sku[1])))
         ELSE Composed.contents = <<>>

\* thirteen matching rows: twelve lines shown, quantity thirteen
C6_Witness ==
  /\ Handled
  /\ resp.composed # None
  /\ "bom_line" \in DOMAIN resp.col_map
  /\ Len(resp.bom_info) = 13
  /\ Len(Composed.contents) = 12
  /\ Composed.info[2].text = QtyText(13)

\* C9 as stated: the info lines are centred in the box: the first line's y
\* is box top plus half of (box height minus the height of the block as
\* drawn), and the space above the first line equals the space below the last.
C9_InfoCentred ==
  (Handled /\ resp.composed # None) =>
    /\ Composed.info[1].y =
         680 + ((870 - 680) - ((Len(Composed.info) - 1) * 42 + InfoLineHeight)) \div 2
    /\ Composed.info[1].y - 680 =
         870 - (Composed.info[Len(Composed.info)].y + InfoLineHeight)

\* composition fails for this input: no table, no rows, no sku column, or no
\* matching row
CompositionFails(sku) ==
  \/ ~excel.exists
  \/ excel.rows = <<>>
  \/ excel.columns = <<>>
  \/ "sku" \notin DOMAIN Load(excel).col_map
  \/ \A r \in 1..Len(excel.rows) :
       Upper(CellStr(RawCell(r, Load(excel).col_map["sku"]))) # Upper(sku)

\* this step is the arrival of a request that returned at once
ReturnedAtOnce ==
  served' = served + 1 /\ \A p \in Procs : procs'[p].active = procs[p].active

\* C1: a request whose composition fails gets no label filename and an error
\* reason and no attachment, the download endpoint answering with the error
\* text; handling it changes no file of the output directory, neither when
\* it arrives nor in any later step of its thread.
C1_FailureWritesNothing ==
  [][ /\ ( /\ ReturnedAtOnce
           /\ Handled'
           /\ CompositionFails(resp'.sku[1]) )
         => ( /\ resp'.label = None
              /\ resp'.error # None
              /\ files' = files
              /\ resp'.attachment = None
              /\ resp'.route = "download" =>
                   resp'.text = Some(<<"Error: ", resp'.error[1]>>) )
      /\ \A p \in Procs :
           ( /\ procs[p].active
             /\ procs'[p] # procs[p]
             /\ CompositionFails(procs[p].sku) )
           => ( /\ files' = files
                /\ ~procs'[p].active => resp'.label = None /\ resp'.error # None ) ]_vars

\* a download of an unknown SKU failed after an earlier request had written
\* files, and no PDF of the unknown SKU exists
C1_Witness ==
  /\ served >= 2
  /\ resp.route = "download"
  /\ resp.error = Some(ErrNotFound)
  /\ resp.label = None
  /\ DOMAIN files # {}
  /\ \A n \in DOMAIN files : n # resp.sku[1] \o <<"_","l","a","b","e","l",".","p","d","f">>

\* the document a file holds from its first byte on, if any
Whole(content) == IF content.kind = "mixed" THEN content.head ELSE content

\* the files that hold a document
Documents ==
  {n \in DOMAIN files : Whole(files[n]).kind \in {"barcode", "label", "pdf"}}

\* the SKU string a document was made for
SkuOf(content) ==
  CASE content.kind = "barcode" -> content.code
    [] content.kind = "label" -> content.sku
    [] OTHER -> content.image.sku

\* {SKU}_barcode.png, {SKU}_label.png, {SKU}_label.pdf
NameOf(kind, sku) ==
  CASE kind = "barcode" -> sku \o <<"_","b","a","r","c","o","d","e",".","p","n","g">>
    [] kind = "label" -> sku \o <<"_","l","a","b","e","l",".","p","n","g">>
    [] OTHER -> sku \o <<"_","l","a","b","e","l",".","p","d","f">>

\* every document is in the file named after the SKU string it was made for
NamesKeyedBySku ==
  \A n \in Documents :
    n = NameOf(Whole(files[n]).kind, SkuOf(Whole(files[n])))

\* the files of a request for the string sku on the given route: the form
\* writes the barcode and the label, the download the PDF as well
Written(route, sku) ==
  {NameOf("barcode", sku), NameOf("label", sku)}
    \cup (IF route = "download" THEN {NameOf("pdf", sku)} ELSE {})

\* the three files of the SKU string sku
FilesOf(sku) == {NameOf("barcode", sku), NameOf("label", sku), NameOf("pdf", sku)}

\* what each file of its SKU holds according to the composition of the
\* request with response r
Fresh(r) ==
  [n \in FilesOf(r.sku[1]) |->
     IF n = NameOf("barcode", r.sku[1])
       THEN [kind |-> "barcode", code |-> r.sku[1], write_text |-> FALSE]
     ELSE IF n = NameOf("label", r.sku[1]) THEN r.composed[1]
     ELSE [kind |-> "pdf", pagesize |-> <<288, 214>>, image |-> r.composed[1]]]

\* no request is being handled
Quiet == \A p \in Procs : ~procs[p].active

\* the last response is that of a successful composition or download that
\* was handled with no other request at the same time (one of a sequence)
InSequence ==
  /\ Handled
  /\ resp.composed # None
  /\ resp.error = None
  /\ resp.overlap = {}

\* C7 as stated: every file is named {SKU}_barcode.png, {SKU}_label.png or
\* {SKU}_label.pdf for the SKU it was made for (so there is at most one of
\* each per SKU), and after a composition or download of a sequence each
\* file of its SKU that exists holds the content of that composition.
C7_OverwriteEachFile ==
  /\ NamesKeyedBySku
  /\ (Quiet /\ InSequence) =>
       \A n \in FilesOf(resp.sku[1]) \cap DOMAIN files :
         files[n] = Fresh(resp)[n]

\* C7 amended: the naming as stated; no file is removed; a request changes
\* only its own files, which for a composition through the form are the
\* barcode and the label and for a download the PDF as well, so the form
\* leaves the PDF as it was; and after a composition or download of a
\* sequence each of its own files holds the content of that composition.
C7_OverwriteOwnFiles ==
  [][ /\ NamesKeyedBySku'
      /\ DOMAIN files \subseteq DOMAIN files'
      /\ files' # files =>
           \E p \in Procs :
             /\ procs[p].active
             /\ procs'[p] # procs[p]
             /\ \A n \in DOMAIN files' :
                  (n \notin DOMAIN files \/ files'[n] # files[n]) =>
                    n \in Written(procs[p].route, procs[p].sku)
      /\ (Quiet' /\ InSequence') =>
           \A n \in Written(resp'.route, resp'.sku[1]) :
             n \in DOMAIN files' /\ files'[n] = Fresh(resp')[n] ]_vars

\* a label recomposed through the form after its PDF was made by a download:
\* the set of file names is as it was, the label file holds the newer label
\* and the PDF still embeds the older one
C7_Witness ==
  /\ Quiet
  /\ InSequence
  /\ resp.route = "index"
  /\ NameOf("pdf", resp.sku[1]) \in Documents
  /\ files[NameOf("pdf", resp.sku[1])].kind = "pdf"
  /\ files[NameOf("label", resp.sku[1])] = Composed
  /\ files[NameOf("pdf", resp.sku[1])].image # Composed

-----------------------------------------------------------------------------
(* Claims about requests handled at the same time (under Spec).            *)

\* the last response is that of a request handled while others were, all of
\* them with its own inputs
SameInputs ==
  /\ Handled
  /\ resp.overlap # {}
  /\ \A r \in resp.overlap : r = resp.req[1]

\* the request req handled alone, at its first file operation
Alone(req) ==
  IF req.route = "download"
    THEN download_pdf(excel, req.sku[1], req.mrp[1])
    ELSE index(excel, req.sku, req.mrp, req.generate)

\* the label the request req composes when handled alone
AloneLabel(req) ==
  LabelImage(Alone(req).sku, Alone(req).data, BarcodeImage(Alone(req).sku))

\* the page the request req gets when handled alone
AlonePage(req) ==
  IF req.route = "download" /\ Alone(req).todo # <<>>
    THEN [Alone(req).page EXCEPT
            !.attachment = Some(PdfDocument(AloneLabel(req)))]
    ELSE Alone(req).page

\* the files the request req leaves when handled alone in an empty directory
AloneFiles(req) ==
  IF Alone(req).todo = <<>> THEN <<>>
  ELSE [n \in Written(req.route, Alone(req).sku) |->
          IF n = BarcodeName(Alone(req).sku) THEN BarcodeImage(Alone(req).sku)
          ELSE IF n = LabelName(Alone(req).sku) THEN AloneLabel(req)
          ELSE PdfDocument(AloneLabel(req))]

\* what the client receives
Received(page) ==
  [label |-> page.label, error |-> page.error, text |-> page.text,
   attachment |-> page.attachment]

\* C8 as stated: a request handled at the same time as requests with the
\* same inputs returns what it returns when handled alone, and when all of
\* them have returned the files hold what one of them alone leaves.
C8_ConcurrentSameAsAlone ==
  SameInputs =>
    /\ Received(resp) = Received(AlonePage(resp.req[1]))
    /\ (\A p \in Procs : ~procs[p].active) =>
         \A n \in DOMAIN AloneFiles(resp.req[1]) :
           n \in DOMAIN files /\ files[n] = AloneFiles(resp.req[1])[n]

\* C10 as stated: the PDF a download request receives embeds the label that
\* request composed, with its own price.
C10_PdfHasOwnPrice ==
  (resp.route = "download" /\ resp.attachment # None) =>
    /\ resp.attachment[1].kind = "pdf"
    /\ resp.attachment[1].image.info[3].text = Composed.info[3].text

====
